---- MODULE Spec2Model ----
(***************************************************************************)
(* A model of the firecore-pokedex core: the Dex registry (src/src/dex.rs), *)
(* the saved/live conversion of an owned pokemon                            *)
(* (src/src/pokemon/owned.rs, src/src/moves/set.rs) and the item stack      *)
(* (src/src/item/stack.rs).                                                 *)
(*                                                                          *)
(* Option<T> is a sequence of length at most one: None is << >>, Some(x) is *)
(* <<x>>.  A call that can panic returns [panic, val]: val is the Option    *)
(* of the value returned when the call did not panic.                       *)
(***************************************************************************)
EXTENDS Integers, Sequences, FiniteSets, TLC

VARIABLES
    dex,      \* BasicDex.0: the map Id -> entity, a function on the ids present
    lookup,   \* the most recent call on the Dex and what it returned
    saved,    \* the SavedPokemon handed to init
    live,     \* Option<OwnedPokemon>: what init returned
    moveset,  \* Option<OwnedMoveSet>: what init of the saved move set alone returned
    resaved,  \* Option<SavedPokemon>: what uninit of the live value returned
    pc,       \* where the conversion stands: "saved", "live", "failed", "moveset", "resaved"
    stack,    \* the ItemStack acted on: [item, count]
    call,     \* the most recent ItemStack call: [op, n, before, flag, out, underflow]
    ret,      \* the most recent call on the live pokemon, its arguments and what it returned
    statcall, \* the derived-stat computation: its arguments and its results
    stages,   \* the stat stages of a BaseStats
    stagecall \* the most recent can_change_stage / change_stage call

dexVars == <<dex, lookup>>
pokeVars == <<saved, live, moveset, resaved, pc>>
stackVars == <<stack, call>>
levelVars == <<ret>>
statVars == <<statcall>>
stageVars == <<stages, stagecall>>
vars == <<dex, lookup, saved, live, moveset, resaved, pc, stack, call, ret, statcall,
          stages, stagecall>>

None == << >>
Some(x) == <<x>>
IsSome(o) == o # << >>
Unwrap(o) == o[1]

Ok(v) == [panic |-> FALSE, val |-> Some(v)]
Panicked == [panic |-> TRUE, val |-> None]

Min(a, b) == IF a < b THEN a ELSE b

(***************************************************************************)
(* The Dex registry                                                         *)
(***************************************************************************)

\* Identifiable::UNKNOWN of the entity kind
UNKNOWN == 0

MaxId == 2
MaxSeqLen == 2

Ids == 0..MaxId
\* an identifiable entity: its id and the rest of its record
Entities == [id : Ids, rev : {"a", "b"}]

\* every HashMap<Id, O> whose key of an entry is any id (new() takes any map)
Maps == UNION {[D -> Entities] : D \in SUBSET Ids}

EmptyMap == [i \in {} |-> 0]

BasicDex_new(inner) == inner

BasicDex_default == EmptyMap

\* HashMap::insert under the entity's own id: the new map and the displaced entry
BasicDex_insert(d, v) ==
    [dex |-> [i \in DOMAIN d \cup {v.id} |-> IF i = v.id THEN v ELSE d[i]],
     out |-> IF v.id \in DOMAIN d THEN Some(d[v.id]) ELSE None]

\* collect() of (id, entity) pairs in sequence order: a later record overwrites
RECURSIVE BasicDex_deserialize(_)
BasicDex_deserialize(s) ==
    IF s = << >> THEN EmptyMap
    ELSE BasicDex_insert(BasicDex_deserialize(SubSeq(s, 1, Len(s) - 1)), s[Len(s)]).dex

BasicDex_try_get(d, id) == IF id \in DOMAIN d THEN Some(d[id]) ELSE None

\* variant of unknown(): a missing UNKNOWN entry is replaced by a default entity
BasicDex_unknown_tolerant(d) ==
    IF IsSome(BasicDex_try_get(d, UNKNOWN))
    THEN Ok(Unwrap(BasicDex_try_get(d, UNKNOWN)))
    ELSE Ok([id |-> UNKNOWN, rev |-> "a"])

BasicDex_unknown(d) ==
    IF IsSome(BasicDex_try_get(d, UNKNOWN))
    THEN Ok(Unwrap(BasicDex_try_get(d, UNKNOWN)))
    ELSE Panicked

\* variant of get(): the fallback is returned without trying id first
Dex_get_always_unknown(d, id) == BasicDex_unknown(d)

Dex_get(d, id) ==
    IF IsSome(BasicDex_try_get(d, id))
    THEN Ok(Unwrap(BasicDex_try_get(d, id)))
    ELSE BasicDex_unknown(d)

Entity0 == [id |-> UNKNOWN, rev |-> "a"]
NoLookup == [op |-> "default", id |-> UNKNOWN, arg |-> Entity0, out |-> [panic |-> FALSE, val |-> None]]

SeqsUpTo(S, n) == UNION {[1..k -> S] : k \in 0..n}

\* a registry as it leaves construction: default(), new(inner) or deserialize(seq);
\* none of the three looks for the UNKNOWN entry
DexInit ==
    /\ \/ dex = BasicDex_default
       \/ \E inner \in Maps : dex = BasicDex_new(inner)
       \/ \E s \in SeqsUpTo(Entities, MaxSeqLen) : dex = BasicDex_deserialize(s)
    /\ lookup = NoLookup

DexInsert ==
    \E v \in Entities :
        /\ dex' = BasicDex_insert(dex, v).dex
        /\ lookup' = [op |-> "insert", id |-> v.id, arg |-> v,
                      out |-> [panic |-> FALSE, val |-> BasicDex_insert(dex, v).out]]

DexTryGet ==
    \E id \in Ids :
        /\ lookup' = [op |-> "try_get", id |-> id, arg |-> Entity0,
                      out |-> [panic |-> FALSE, val |-> BasicDex_try_get(dex, id)]]
        /\ UNCHANGED dex

DexGet ==
    \E id \in Ids :
        /\ lookup' = [op |-> "get", id |-> id, arg |-> Entity0,
                      out |-> Dex_get(dex, id)]
        /\ UNCHANGED dex

DexUnknown ==
    /\ lookup' = [op |-> "unknown", id |-> UNKNOWN, arg |-> Entity0,
                  out |-> BasicDex_unknown(dex)]
    /\ UNCHANGED dex

(***************************************************************************)
(* The item stack                                                           *)
(***************************************************************************)

\* width of usize in the model; counts live in 0..UsizeMax
UsizeBits == 4
UsizeMax == 2^UsizeBits - 1

\* an Item as the stack reads it: item.id, item.stackable, item.should_consume()
Items == [id : {1}, stackable : {"Unique", "Singular", "Stackable"}, consume : BOOLEAN]

\* impl From<I> for ItemStack<I>
ItemStack_from(item) == [item |-> item, count |-> 0]

\* variant of the addition: wrapping instead of saturating
saturating_add_wrapping(a, b) == (a + b) % (UsizeMax + 1)

\* usize::saturating_add
saturating_add(a, b) == IF a + b > UsizeMax THEN UsizeMax ELSE a + b

\* self.count -= count: a usize subtraction, which underflows when count > self.count
\* (a panic in a checked build, a wrap in an unchecked one); the callers guard it
ItemStack_take_gt(s, count) ==
    [stack |-> [s EXCEPT !.count = (s.count - count) % (UsizeMax + 1)],
     out |-> Some([item |-> s.item, count |-> count]),
     underflow |-> count > s.count]

\* variant of try_take(): the guard reads >= instead of >
ItemStack_try_take_off_by_one(s, count) ==
    IF count >= s.count
    THEN [stack |-> s, out |-> None, underflow |-> FALSE]
    ELSE ItemStack_take_gt(s, count)

ItemStack_try_take(s, count) ==
    IF count > s.count
    THEN [stack |-> s, out |-> None, underflow |-> FALSE]
    ELSE ItemStack_take_gt(s, count)

\* variant of take(): the returned stack holds the requested count
ItemStack_take_requested(s, count) ==
    IF count > s.count
    THEN [stack |-> [s EXCEPT !.count = 0],
          out |-> Some([item |-> s.item, count |-> count]),
          underflow |-> FALSE]
    ELSE ItemStack_take_gt(s, count)

ItemStack_take(s, count) ==
    IF count > s.count
    THEN [stack |-> [s EXCEPT !.count = 0],
          out |-> Some([item |-> s.item, count |-> s.count]),
          underflow |-> FALSE]
    ELSE ItemStack_take_gt(s, count)

\* variant of try_use(): the count is tested for consumable items only
ItemStack_try_use_any_count(s) ==
    IF s.item.consume
    THEN IF s.count > 0
         THEN [stack |-> [s EXCEPT !.count = s.count - 1], flag |-> TRUE]
         ELSE [stack |-> s, flag |-> FALSE]
    ELSE [stack |-> s, flag |-> TRUE]

ItemStack_try_use(s) ==
    IF s.count > 0
    THEN [stack |-> IF s.item.consume THEN [s EXCEPT !.count = s.count - 1] ELSE s,
          flag |-> TRUE]
    ELSE [stack |-> s, flag |-> FALSE]

ItemStack_add(s, count) ==
    IF s.item.stackable = "Unique" /\ s.count # 0
    THEN [stack |-> s, flag |-> FALSE]
    ELSE [stack |-> [s EXCEPT !.count = saturating_add(s.count, count)], flag |-> TRUE]

Item0 == [id |-> 1, stackable |-> "Singular", consume |-> FALSE]
NoCall == [op |-> "from", n |-> 0, before |-> ItemStack_from(Item0),
           flag |-> TRUE, out |-> None, underflow |-> FALSE]

StackInit ==
    /\ \E item \in Items : stack = ItemStack_from(item)
    /\ call = [NoCall EXCEPT !.before = stack]

StackTryTake ==
    \E n \in 0..UsizeMax :
        /\ stack' = ItemStack_try_take(stack, n).stack
        /\ call' = [op |-> "try_take", n |-> n, before |-> stack,
                    flag |-> IsSome(ItemStack_try_take(stack, n).out),
                    out |-> ItemStack_try_take(stack, n).out,
                    underflow |-> ItemStack_try_take(stack, n).underflow]

StackTake ==
    \E n \in 0..UsizeMax :
        /\ stack' = ItemStack_take(stack, n).stack
        /\ call' = [op |-> "take", n |-> n, before |-> stack,
                    flag |-> TRUE,
                    out |-> ItemStack_take(stack, n).out,
                    underflow |-> ItemStack_take(stack, n).underflow]

StackTryUse ==
    /\ stack' = ItemStack_try_use(stack).stack
    /\ call' = [op |-> "try_use", n |-> 0, before |-> stack,
                flag |-> ItemStack_try_use(stack).flag,
                out |-> None, underflow |-> FALSE]

StackAdd ==
    \E n \in 0..UsizeMax :
        /\ stack' = ItemStack_add(stack, n).stack
        /\ call' = [op |-> "add", n |-> n, before |-> stack,
                    flag |-> ItemStack_add(stack, n).flag,
                    out |-> None, underflow |-> FALSE]

(***************************************************************************)
(* The saved/live conversion of an owned pokemon                            *)
(***************************************************************************)

\* capacity of a move set (ArrayVec<[T; MOVE_SET_SIZE]>)
MOVE_SET_SIZE == 4

MaxLevel == 3
MaxDraw == 1
MaxSavedMoves == 3

\* StatSet::uniform: the same value for each of the six stats
StatSet_uniform(n) ==
    [hp |-> n, atk |-> n, def |-> n, sp_atk |-> n, sp_def |-> n, speed |-> n]

\* the movedex: moves 0..5 are present, MissingMove is not
Movedex == [i \in 0..5 |-> [id |-> i]]
MissingMove == 9

\* the itemdex: items 0 and 1 are present, MissingItem is not
Itemdex == [i \in 0..1 |-> [id |-> i]]
MissingItem == 7

LearnableMove(level, id) == <<level, id>>

\* the pokedex: species 0 (the unknown species, genderless, one move),
\* species 1 (gendered, six learnable moves of which one is missing from the
\* movedex) and species 3 (five learnable moves of which only the first is in
\* the movedex); MissingPokemon is not in it
Pokedex ==
    (0 :> [id |-> 0, base |-> StatSet_uniform(60), gender |-> None,
           moves |-> <<LearnableMove(1, 1)>>]) @@
    (1 :> [id |-> 1, base |-> StatSet_uniform(45), gender |-> Some(0),
           moves |-> <<LearnableMove(1, 1), LearnableMove(1, 2),
                       LearnableMove(2, MissingMove), LearnableMove(2, 3),
                       LearnableMove(3, 4), LearnableMove(3, 5)>>]) @@
    (3 :> [id |-> 3, base |-> StatSet_uniform(45), gender |-> None,
           moves |-> <<LearnableMove(1, 1), LearnableMove(1, MissingMove),
                       LearnableMove(2, MissingMove), LearnableMove(2, MissingMove),
                       LearnableMove(3, MissingMove)>>])
MissingPokemon == 2

Natures == {"Hardy", "Bold"}

\* Pokemon::generate_gender with the generator's draw r
Pokemon_generate_gender(pokemon, r) ==
    IF IsSome(pokemon.gender)
    THEN IF r > Unwrap(pokemon.gender) THEN "Male" ELSE "Female"
    ELSE "None"

\* significand widths of f32 and f64, the hidden bit included
F32Bits == 24
F64Bits == 53

\* the number of binary digits of n
RECURSIVE BitLen(_)
BitLen(n) == IF n = 0 THEN 0 ELSE 1 + BitLen(n \div 2)

\* the first k binary digits of the fraction r / d, r < d
RECURSIVE FracBits(_, _, _)
FracBits(r, d, k) ==
    IF k = 0 THEN << >> ELSE <<(2 * r) \div d>> \o FracBits((2 * r) % d, d, k - 1)

\* the remainder of r / d after k binary digits
RECURSIVE RemAfter(_, _, _)
RemAfter(r, d, k) == IF k = 0 THEN r ELSE RemAfter((2 * r) % d, d, k - 1)

\* the zero digits in front of the first one of the fraction r / d, 0 < r < d
RECURSIVE LeadingZeros(_, _)
LeadingZeros(r, d) == IF 2 * r >= d THEN 0 ELSE 1 + LeadingZeros(2 * r, d)

\* a sequence of binary digits plus one in the last place, with the carry out
RECURSIVE IncBits(_)
IncBits(b) ==
    IF b = << >> THEN [bits |-> << >>, carry |-> 1]
    ELSE IF b[Len(b)] = 0
         THEN [bits |-> [b EXCEPT ![Len(b)] = 1], carry |-> 0]
         ELSE LET r == IncBits(SubSeq(b, 1, Len(b) - 1))
              IN  [bits |-> Append(r.bits, 0), carry |-> r.carry]

\* a non-negative float: the integer part ip and the binary digits of the
\* fraction; rounding to nearest, ties to even, of ip + 0.kept with up
\* saying that the part cut off calls for the next value
FloatRounded(ip, kept, up) ==
    IF ~up THEN [ip |-> ip, frac |-> kept]
    ELSE [ip |-> ip + IncBits(kept).carry, frac |-> IncBits(kept).bits]

\* whether the last digit kept is odd
OddLast(ip, kept) == IF kept = << >> THEN ip % 2 = 1 ELSE kept[Len(kept)] = 1

\* x as float / d as float in a format of a significand of bits digits: the
\* digits the format has room for, rounded by what is left of the quotient
FloatDiv(x, d, bits) ==
    LET ip == x \div d
        r == x % d
        nb == IF ip > 0 THEN bits - BitLen(ip)
              ELSE IF r = 0 THEN 0 ELSE LeadingZeros(r, d) + bits
        kept == FracBits(r, d, nb)
        rem == RemAfter(r, d, nb)
    IN  FloatRounded(ip, kept, 2 * rem > d \/ (2 * rem = d /\ OddLast(ip, kept)))

\* v + n as float, v a float of integer part at least 0 and n a whole number
\* with ip + n > 0: the sum has room for fewer digits of the fraction
FloatAdd(v, n, bits) ==
    LET ip == v.ip + n
        nb == bits - BitLen(ip)
    IN  IF Len(v.frac) <= nb THEN [ip |-> ip, frac |-> v.frac]
        ELSE LET kept == SubSeq(v.frac, 1, nb)
                 cut == SubSeq(v.frac, nb + 1, Len(v.frac))
                 more == \E i \in 2..Len(cut) : cut[i] = 1
             IN  FloatRounded(ip, kept,
                              cut[1] = 1 /\ (more \/ OddLast(ip, kept)))

\* f32::floor / f64::floor followed by the cast to BaseStat
FloatFloor(v) == v.ip

\* Pokemon::base_stat in f32:
\* (((2.0 * base + iv + ev) * level / 100.0 + 5.0).floor() * nature).floor()
Pokemon_base_stat(base, iv, ev, level) ==
    FloatFloor(FloatAdd(FloatDiv((2 * base + iv + ev) * level, 100, F32Bits),
                        5, F32Bits))

\* Pokemon::base_hp in f32:
\* ((2.0 * base + iv + ev) * level / 100.0 + level + 10.0).floor()
Pokemon_base_hp(base, iv, ev, level) ==
    FloatFloor(FloatAdd(FloatAdd(FloatDiv((2 * base + iv + ev) * level, 100, F32Bits),
                                 level, F32Bits),
                        10, F32Bits))

StatTypes == {"hp", "atk", "def", "sp_atk", "sp_def", "speed"}

\* variant of Pokemon::stat: the two arms of the match are exchanged
Pokemon_stat_exchanged(pokemon, ivs, evs, level, stat) ==
    IF stat = "hp"
    THEN Pokemon_base_stat(pokemon.base.hp, ivs.hp, evs.hp, level)
    ELSE Pokemon_base_hp(pokemon.base[stat], ivs[stat], evs[stat], level)

\* Pokemon::stat
Pokemon_stat(pokemon, ivs, evs, level, stat) ==
    IF stat = "hp"
    THEN Pokemon_base_hp(pokemon.base.hp, ivs.hp, evs.hp, level)
    ELSE Pokemon_base_stat(pokemon.base[stat], ivs[stat], evs[stat], level)

\* StatSet::stat, in f32 as Pokemon::base_stat
StatSet_stat(base, iv, ev, level) ==
    FloatFloor(FloatAdd(FloatDiv((2 * base + iv + ev) * level, 100, F32Bits),
                        5, F32Bits))

\* StatSet::hp, in f64
StatSet_hp(base, iv, ev, level) ==
    FloatFloor(FloatAdd(FloatAdd(FloatDiv((2 * base + iv + ev) * level, 100, F64Bits),
                                 level, F64Bits),
                        10, F64Bits))

\* StatSet::new
StatSet_new(pokemon, ivs, evs, level) ==
    [st \in StatTypes |->
        IF st = "hp" THEN StatSet_hp(pokemon.base.hp, ivs.hp, evs.hp, level)
        ELSE StatSet_stat(pokemon.base[st], ivs[st], evs[st], level)]

\* Pokemon::moves_at: the ids of the learnable moves whose level is in levels,
\* in the order the species lists them
RECURSIVE Pokemon_moves_at_from(_, _)
Pokemon_moves_at_from(moves, levels) ==
    IF moves = << >> THEN << >>
    ELSE (IF moves[1][1] \in levels THEN <<moves[1][2]>> ELSE << >>)
         \o Pokemon_moves_at_from(Tail(moves), levels)

Pokemon_moves_at(pokemon, levels) == Pokemon_moves_at_from(pokemon.moves, levels)

\* Iterator::rev
RECURSIVE Rev(_)
Rev(s) == IF s = << >> THEN << >> ELSE Rev(Tail(s)) \o <<Head(s)>>

\* variant of take(): nothing is cut off
Take_all(s, n) == s

\* Iterator::take
Take(s, n) == SubSeq(s, 1, Min(n, Len(s)))

\* OwnedMove::from: the live move slot of a resolved move
OwnedMove_from(m) == [m |-> m]

\* SavedMove::init: the live slot when the move id resolves, None otherwise
SavedMove_init(sm, movedex) ==
    IF IsSome(BasicDex_try_get(movedex, sm.id))
    THEN Some(OwnedMove_from(Unwrap(BasicDex_try_get(movedex, sm.id))))
    ELSE None

\* OwnedMove::uninit
OwnedMove_uninit(o) == [id |-> o.m.id]

\* into_iter().flat_map(|s| s.init(dex)).collect()
RECURSIVE FlatMapInit(_, _)
FlatMapInit(set, movedex) ==
    IF set = << >> THEN << >>
    ELSE SavedMove_init(Head(set), movedex) \o FlatMapInit(Tail(set), movedex)

\* variant of the move set init(): one unresolved slot fails the conversion
SavedMoveSet_init_strict(set, movedex) ==
    IF \E i \in 1..Len(set) : SavedMove_init(set[i], movedex) = None
    THEN None
    ELSE Some(FlatMapInit(set, movedex))

SavedMoveSet_init(set, movedex) == Some(FlatMapInit(set, movedex))

\* variant of is_full(): the set counts as full one move late
OwnedMoveSet_is_full_late(set) == Len(set) = MOVE_SET_SIZE + 1

OwnedMoveSet_is_full(set) == Len(set) = MOVE_SET_SIZE

\* variant of add(): a full set with no usable index evicts slot 0
OwnedMoveSet_add_evicting(set, index, m) ==
    IF OwnedMoveSet_is_full(set)
    THEN IF IsSome(index) /\ Unwrap(index) < Len(set)
         THEN [set EXCEPT ![Unwrap(index) + 1] = OwnedMove_from(m)]
         ELSE [set EXCEPT ![1] = OwnedMove_from(m)]
    ELSE Append(set, OwnedMove_from(m))

\* OwnedMoveSet::add: push when not full; when full, overwrite slot i for an
\* index Some(i) that get_mut finds (slots are counted from 0)
OwnedMoveSet_add(set, index, m) ==
    IF OwnedMoveSet_is_full(set)
    THEN IF IsSome(index) /\ Unwrap(index) < Len(set)
         THEN [set EXCEPT ![Unwrap(index) + 1] = OwnedMove_from(m)]
         ELSE set
    ELSE Append(set, OwnedMove_from(m))

\* OwnedMoveSet::uninit
OwnedMoveSet_uninit(set) == [i \in 1..Len(set) |-> OwnedMove_uninit(set[i])]

\* for m in ids.flat_map(|id| movedex.try_get(id)) { moves.add(None, m) }
RECURSIVE AddResolved(_, _, _)
AddResolved(set, ids, movedex) ==
    IF ids = << >> THEN set
    ELSE AddResolved(
            IF IsSome(BasicDex_try_get(movedex, Head(ids)))
            THEN OwnedMoveSet_add(set, None, Unwrap(BasicDex_try_get(movedex, Head(ids))))
            ELSE set,
            Tail(ids), movedex)

\* the body of SavedPokemon::init once the species is resolved; rg and rn
\* are the generator's draws for the gender and the nature
OwnedPokemon_resolved(s, pokemon, rg, rn) ==
    LET nature == IF IsSome(s.nature) THEN Unwrap(s.nature) ELSE rn
        moves == Unwrap(SavedMoveSet_init(s.moves, Movedex))
    IN  [pokemon |-> pokemon,
         level |-> s.level,
         gender |-> IF IsSome(s.gender) THEN Unwrap(s.gender)
                    ELSE Pokemon_generate_gender(pokemon, rg),
         nature |-> nature,
         hp |-> IF IsSome(s.hp) THEN Unwrap(s.hp)
                ELSE Pokemon_stat(pokemon, s.ivs, s.evs, s.level, "hp"),
         ivs |-> s.ivs,
         evs |-> s.evs,
         friendship |-> s.friendship,
         ailment |-> s.ailment,
         nickname |-> s.nickname,
         moves |-> IF moves = << >>
                   THEN AddResolved(moves,
                            Take(Rev(Pokemon_moves_at(pokemon, 1..s.level)), 4),
                            Movedex)
                   ELSE moves,
         item |-> IF IsSome(s.item) THEN BasicDex_try_get(Itemdex, Unwrap(s.item))
                  ELSE None,
         experience |-> s.experience]

\* variant of init(): the species is looked up with get, falling back to unknown
SavedPokemon_init_with_get(s, rg, rn) ==
    IF SavedMoveSet_init(s.moves, Movedex) = None THEN None
    ELSE Some(OwnedPokemon_resolved(s, Unwrap(Dex_get(Pokedex, s.pokemon).val), rg, rn))

\* SavedPokemon::init: None when the species does not resolve (the first ?)
\* or the move set conversion reports None (the second ?)
SavedPokemon_init(s, rg, rn) ==
    IF BasicDex_try_get(Pokedex, s.pokemon) = None THEN None
    ELSE IF SavedMoveSet_init(s.moves, Movedex) = None THEN None
    ELSE Some(OwnedPokemon_resolved(s, Unwrap(BasicDex_try_get(Pokedex, s.pokemon)), rg, rn))

\* variant of uninit(): the nickname is not carried over
OwnablePokemon_uninit_no_nickname(o) ==
    [pokemon |-> o.pokemon.id, level |-> o.level, gender |-> Some(o.gender),
     nature |-> Some(o.nature), hp |-> Some(o.hp), ivs |-> o.ivs, evs |-> o.evs,
     friendship |-> o.friendship, ailment |-> o.ailment, nickname |-> None,
     moves |-> OwnedMoveSet_uninit(o.moves),
     item |-> IF IsSome(o.item) THEN Some(Unwrap(o.item).id) ELSE None,
     experience |-> o.experience]

\* Uninitializable for OwnablePokemon
OwnablePokemon_uninit(o) ==
    [pokemon |-> o.pokemon.id, level |-> o.level, gender |-> Some(o.gender),
     nature |-> Some(o.nature), hp |-> Some(o.hp), ivs |-> o.ivs, evs |-> o.evs,
     friendship |-> o.friendship, ailment |-> o.ailment, nickname |-> o.nickname,
     moves |-> OwnedMoveSet_uninit(o.moves),
     item |-> IF IsSome(o.item) THEN Some(Unwrap(o.item).id) ELSE None,
     experience |-> o.experience]

\* the fields init copies unread, as two sample records
Carried ==
    {[ivs |-> StatSet_uniform(15), evs |-> StatSet_uniform(0), friendship |-> 70,
      ailment |-> None, nickname |-> None, experience |-> 0],
     [ivs |-> StatSet_uniform(31), evs |-> StatSet_uniform(4), friendship |-> 200,
      ailment |-> Some("Sleep"), nickname |-> Some("Nick"), experience |-> 3]}

SavedMoves == [id : {1, 2, MissingMove}]

\* the saved pokemon handed to init
SavedPokemons ==
    {[pokemon |-> p, level |-> l, gender |-> g, nature |-> n, hp |-> h,
      ivs |-> c.ivs, evs |-> c.evs, friendship |-> c.friendship,
      ailment |-> c.ailment, nickname |-> c.nickname,
      moves |-> m, item |-> i, experience |-> c.experience] :
        p \in {0, 1, MissingPokemon}, l \in 1..MaxLevel,
        g \in {None, Some("Male")}, n \in {None, Some("Hardy")},
        h \in {None, Some(5)}, c \in Carried,
        m \in SeqsUpTo(SavedMoves, MaxSavedMoves),
        i \in {None, Some(1), Some(MissingItem)}}

PokeInit ==
    /\ saved \in SavedPokemons
    /\ live = None
    /\ moveset = None
    /\ resaved = None
    /\ pc = "saved"

\* saved.init(random, pokedex, movedex, itemdex)
PokeCallInit ==
    /\ pc = "saved"
    /\ \E rg \in 0..MaxDraw, rn \in Natures :
        /\ live' = SavedPokemon_init(saved, rg, rn)
        /\ pc' = IF IsSome(SavedPokemon_init(saved, rg, rn)) THEN "live" ELSE "failed"
    /\ UNCHANGED <<saved, moveset, resaved>>

\* saved.moves.init(movedex), the move set converted on its own
PokeCallMoveSetInit ==
    /\ pc = "saved"
    /\ moveset' = SavedMoveSet_init(saved.moves, Movedex)
    /\ pc' = "moveset"
    /\ UNCHANGED <<saved, live, resaved>>

\* live.uninit()
PokeCallUninit ==
    /\ pc = "live"
    /\ resaved' = Some(OwnablePokemon_uninit(Unwrap(live)))
    /\ pc' = "resaved"
    /\ UNCHANGED <<saved, live, moveset>>

(***************************************************************************)
(* Experience, levelling and the live move set                              *)
(***************************************************************************)

\* width of Experience (u32) in the model; experience lives in 0..ExpMax
ExpBits == 4
ExpMax == 2^ExpBits - 1
\* largest Level (u8)
U8Max == 255
\* the experience gains add_exp is called with
Gains == {0, 1, 3, 4}

\* how the crate is built: an integer overflow panics in a build with overflow
\* checks and wraps in a build without them
Builds == {"checked", "unchecked"}

\* the growth curve's threshold of a level
Growth_max_exp(level) == level * level * level

\* a Range previous..level: previous <= x < level
RangeExclusive(a, b) == {x \in a..b : x < b}

\* the loop of on_level_up: while the set is not full take the next offered
\* id and add its move when the movedex has it; what was not taken is left
RECURSIVE LearnLoop(_, _)
LearnLoop(set, ids) ==
    IF OwnedMoveSet_is_full(set) \/ ids = << >>
    THEN [moves |-> set, rest |-> ids]
    ELSE LearnLoop(
            IF IsSome(BasicDex_try_get(Movedex, Head(ids)))
            THEN OwnedMoveSet_add(set, None, Unwrap(BasicDex_try_get(Movedex, Head(ids))))
            ELSE set,
            Tail(ids))

\* variant of on_level_up(): once the set is full the next offered move that
\* the movedex has replaces slot 0
OwnablePokemon_on_level_up_replacing(o, previous) ==
    LET offered == Pokemon_moves_at(o.pokemon, RangeExclusive(previous, o.level))
        done == LearnLoop(o.moves, offered)
        next == IF done.rest = << >> THEN None
                ELSE BasicDex_try_get(Movedex, Head(done.rest))
    IN  [mon |-> [o EXCEPT !.moves =
                    IF IsSome(next)
                    THEN OwnedMoveSet_add(done.moves, Some(0), Unwrap(next))
                    ELSE done.moves],
         offered |-> offered,
         returned |-> IF IsSome(next) THEN Tail(done.rest) ELSE done.rest,
         panic |-> FALSE]

\* OwnablePokemon::on_level_up: the pokemon after the call, the ids the
\* iterator moves_at(previous..self.level) yields and the ids it still holds
\* when it is returned
OwnablePokemon_on_level_up(o, previous) ==
    LET offered == Pokemon_moves_at(o.pokemon, RangeExclusive(previous, o.level))
        done == LearnLoop(o.moves, offered)
    IN  [mon |-> [o EXCEPT !.moves = done.moves],
         offered |-> offered, returned |-> done.rest, panic |-> FALSE]

\* the while loop of add_exp; self.level += 1 is a u8 addition
RECURSIVE LevelLoop(_, _, _)
LevelLoop(o, build, fuel) ==
    IF o.experience > Growth_max_exp(o.level) /\ fuel > 0
    THEN LET spent == [o EXCEPT !.experience = o.experience - Growth_max_exp(o.level)]
         IN  IF o.level + 1 > U8Max
             THEN IF build = "checked"
                  THEN [mon |-> spent, panic |-> TRUE]
                  ELSE LevelLoop([spent EXCEPT !.level = 0], build, fuel - 1)
             ELSE LevelLoop([spent EXCEPT !.level = o.level + 1], build, fuel - 1)
    ELSE [mon |-> o, panic |-> FALSE]

\* OwnablePokemon::add_exp: self.experience += experience * 5 in u32, the
\* level loop, then on_level_up(previous)
OwnablePokemon_add_exp(o, experience, build) ==
    LET scaled == experience * 5
        sum == o.experience + (scaled % (ExpMax + 1))
        unwound == [mon |-> o, offered |-> << >>, returned |-> << >>, panic |-> TRUE]
    IN  IF (scaled > ExpMax \/ sum > ExpMax) /\ build = "checked"
        THEN unwound
        ELSE LET looped == LevelLoop([o EXCEPT !.experience = sum % (ExpMax + 1)],
                                     build, U8Max + 1)
             IN  IF looped.panic
                 THEN [unwound EXCEPT !.mon = looped.mon]
                 ELSE OwnablePokemon_on_level_up(looped.mon, o.level)

\* SavedPokemon::generate
SavedPokemon_generate(pokemon, level, gender, ivs) ==
    [pokemon |-> pokemon, level |-> level, gender |-> gender, nature |-> None,
     hp |-> None,
     ivs |-> IF IsSome(ivs) THEN Unwrap(ivs) ELSE StatSet_uniform(0),
     evs |-> StatSet_uniform(0), friendship |-> 70, ailment |-> None,
     nickname |-> None, moves |-> << >>, item |-> None, experience |-> 0]

\* the saved pokemon that are levelled: generated ones and loaded ones
LevelSaved ==
    {SavedPokemon_generate(p, l, Some("Male"), None) : p \in {1, 3}, l \in 1..MaxLevel}
    \cup
    {[SavedPokemon_generate(p, l, Some("Male"), None) EXCEPT
        !.nature = Some("Hardy"), !.hp = Some(5), !.moves = m, !.experience = e] :
        p \in {1, 3}, l \in 1..MaxLevel,
        m \in {<<[id |-> 2], [id |-> MissingMove], [id |-> 1]>>,
               <<[id |-> 2], [id |-> 1], [id |-> 2], [id |-> 1]>>},
        e \in {3}}

NoRet == [op |-> "none", before |-> << >>, level |-> 0, experience |-> 0,
          arg |-> 0, index |-> None, offered |-> << >>, returned |-> << >>,
          panic |-> FALSE]

LevelInit ==
    /\ saved \in LevelSaved
    /\ live = None
    /\ moveset = None
    /\ resaved = None
    /\ pc = "saved"
    /\ ret = NoRet

\* saved.init(random, pokedex, movedex, itemdex)
LevelCallInit ==
    /\ PokeCallInit
    /\ ret' = [NoRet EXCEPT !.op = "init"]

\* live.moves.add(index, m)
LevelCallAdd ==
    /\ pc = "live"
    /\ \E index \in {None} \cup {Some(i) : i \in {1, MOVE_SET_SIZE}},
          m \in {Movedex[0]} :
        /\ live' = Some([Unwrap(live) EXCEPT
                            !.moves = OwnedMoveSet_add(Unwrap(live).moves, index, m)])
        /\ ret' = [NoRet EXCEPT !.op = "add", !.before = Unwrap(live).moves,
                                !.level = Unwrap(live).level,
                                !.experience = Unwrap(live).experience,
                                !.arg = m.id, !.index = index]
    /\ UNCHANGED <<saved, moveset, resaved, pc>>

\* live.add_exp(movedex, experience)
LevelCallAddExp ==
    /\ pc = "live"
    /\ \E e \in Gains :
      \E r \in {OwnablePokemon_add_exp(Unwrap(live), e, build) : build \in Builds} :
        /\ live' = Some(r.mon)
        /\ ret' = [NoRet EXCEPT !.op = "add_exp", !.before = Unwrap(live).moves,
                                !.level = Unwrap(live).level,
                                !.experience = Unwrap(live).experience,
                                !.arg = e, !.offered = r.offered,
                                !.returned = r.returned, !.panic = r.panic]
    /\ UNCHANGED <<saved, moveset, resaved, pc>>

\* live.on_level_up(movedex, previous)
LevelCallOnLevelUp ==
    /\ pc = "live"
    /\ \E previous \in 0..MaxLevel :
        LET r == OwnablePokemon_on_level_up(Unwrap(live), previous) IN
        /\ live' = Some(r.mon)
        /\ ret' = [NoRet EXCEPT !.op = "on_level_up", !.before = Unwrap(live).moves,
                                !.level = Unwrap(live).level,
                                !.experience = Unwrap(live).experience,
                                !.arg = previous, !.offered = r.offered,
                                !.returned = r.returned, !.panic = r.panic]
    /\ UNCHANGED <<saved, moveset, resaved, pc>>

(***************************************************************************)
(* Derived stats                                                            *)
(***************************************************************************)

MaxStatLevel == 100

\* a stat set with a value of its own for each stat
StatSet_of(hp, atk, def, sp_atk, sp_def, speed) ==
    [hp |-> hp, atk |-> atk, def |-> def, sp_atk |-> sp_atk, sp_def |-> sp_def,
     speed |-> speed]

\* the base stats, IVs and EVs the stats are derived from
StatBases ==
    {StatSet_uniform(0), StatSet_uniform(45), StatSet_uniform(60),
     StatSet_uniform(255), StatSet_of(60, 62, 63, 80, 80, 61)}
StatIvs == {StatSet_uniform(0), StatSet_uniform(31), StatSet_of(31, 0, 15, 7, 30, 1)}
StatEvs == {StatSet_uniform(0), StatSet_uniform(252), StatSet_of(0, 4, 255, 85, 6, 1)}

NoStatCall == [op |-> "none", pokemon |-> [base |-> StatSet_uniform(0)],
               ivs |-> StatSet_uniform(0), evs |-> StatSet_uniform(0),
               level |-> 0, stat |-> "hp", out |-> 0, set |-> StatSet_uniform(0)]

StatInit ==
    \E b \in StatBases, i \in StatIvs, e \in StatEvs, l \in 1..MaxStatLevel,
       st \in StatTypes :
        statcall = [NoStatCall EXCEPT !.op = "args", !.pokemon = [base |-> b],
                                      !.ivs = i, !.evs = e, !.level = l, !.stat = st]

\* pokemon.stat(ivs, evs, level, stat) and StatSet::new(pokemon, ivs, evs, level)
StatCall ==
    /\ statcall.op = "args"
    /\ statcall' = [statcall EXCEPT
            !.op = "stat",
            !.out = Pokemon_stat(statcall.pokemon, statcall.ivs, statcall.evs,
                                 statcall.level, statcall.stat),
            !.set = StatSet_new(statcall.pokemon, statcall.ivs, statcall.evs,
                                statcall.level)]

(***************************************************************************)
(* Stat stages                                                              *)
(***************************************************************************)

\* Stage = i8
I8Bits == 8
I8Min == -(2^(I8Bits - 1))
I8Max == 2^(I8Bits - 1) - 1

\* the value an i8 operation leaves when it wraps
WrapI8(n) == ((n - I8Min + 2 * 2^I8Bits) % 2^I8Bits) + I8Min

\* an i8 operation of exact result n: the result when it fits; otherwise a
\* panic in a build with overflow checks, the wrapped value in one without
I8Result(n, build) ==
    IF n >= I8Min /\ n <= I8Max THEN [panic |-> FALSE, overflow |-> FALSE, val |-> n]
    ELSE [panic |-> build = "checked", overflow |-> TRUE, val |-> WrapI8(n)]

\* i8::abs
I8_abs(v, build) == I8Result(IF v < 0 THEN -v ELSE v, build)

\* the stats that have a stage, and the stages asked for
FullStatTypes == {"atk", "accuracy"}
StageDeltas == {-100, -7, -1, 1, 2, 6}

\* BaseStats::can_change_stage: self.stages.get(stat.stat).abs() + stat.stage < 6
BaseStats_can_change_stage(st, stat, build) ==
    LET a == I8_abs(st[stat.stat], build)
        sum == I8Result(a.val + stat.stage, build)
    IN  IF a.panic THEN [panic |-> TRUE, overflow |-> TRUE, val |-> FALSE]
        ELSE [panic |-> sum.panic, overflow |-> a.overflow \/ sum.overflow,
              val |-> ~sum.panic /\ sum.val < 6]

\* BaseStats::change_stage: *self.stages.get_mut(stat.stat) += stat.stage
BaseStats_change_stage(st, stat, build) ==
    LET sum == I8Result(st[stat.stat] + stat.stage, build)
    IN  [panic |-> sum.panic, overflow |-> sum.overflow,
         stages |-> IF sum.panic THEN st ELSE [st EXCEPT ![stat.stat] = sum.val]]

\* BaseStats::new: every stage is 0
BaseStats_new == [t \in FullStatTypes |-> 0]

NoStageCall == [op |-> "none", build |-> "checked",
                stat |-> [stat |-> "atk", stage |-> 0], before |-> 0,
                allowed |-> FALSE, panic |-> FALSE, overflow |-> FALSE]

StageInit ==
    /\ stages = BaseStats_new
    /\ \E build \in Builds : stagecall = [NoStageCall EXCEPT !.op = "new", !.build = build]

\* stats.can_change_stage(&stat)
StageCanChange ==
    /\ stagecall.op \in {"new", "can_change_stage", "change_stage"}
    /\ ~stagecall.panic
    /\ \E t \in FullStatTypes, d \in StageDeltas :
        LET stat == [stat |-> t, stage |-> d]
            r == BaseStats_can_change_stage(stages, stat, stagecall.build)
        IN  stagecall' = [stagecall EXCEPT !.op = "can_change_stage", !.stat = stat,
                                           !.before = stages[t], !.allowed = r.val,
                                           !.panic = r.panic, !.overflow = r.overflow]
    /\ UNCHANGED stages

\* stats.change_stage(stat), made when can_change_stage(&stat) has just
\* returned true
StageChange ==
    /\ stagecall.op = "can_change_stage"
    /\ stagecall.allowed
    /\ ~stagecall.panic
    /\ LET r == BaseStats_change_stage(stages, stagecall.stat, stagecall.build)
       IN  /\ stages' = r.stages
           /\ stagecall' = [stagecall EXCEPT !.op = "change_stage", !.allowed = FALSE,
                                             !.panic = r.panic, !.overflow = r.overflow]

(***************************************************************************)
(* Specifications: one per component; the other components stay idle        *)
(***************************************************************************)

DexIdle == dex = BasicDex_default /\ lookup = NoLookup
StackIdle == stack = ItemStack_from(Item0) /\ call = NoCall
PokeIdle == saved = None /\ live = None /\ moveset = None /\ resaved = None /\ pc = "idle"

LevelIdle == ret = NoRet
StatIdle == statcall = NoStatCall
StageIdle == stages = BaseStats_new /\ stagecall = NoStageCall

InitDex == DexInit /\ StackIdle /\ PokeIdle /\ LevelIdle /\ StatIdle /\ StageIdle

NextDex ==
    \/ DexInsert /\ UNCHANGED <<pokeVars, stackVars, levelVars, statVars, stageVars>>
    \/ DexTryGet /\ UNCHANGED <<pokeVars, stackVars, levelVars, statVars, stageVars>>
    \/ DexGet /\ UNCHANGED <<pokeVars, stackVars, levelVars, statVars, stageVars>>
    \/ DexUnknown /\ UNCHANGED <<pokeVars, stackVars, levelVars, statVars, stageVars>>

SpecDex == InitDex /\ [][NextDex]_vars

InitStack == StackInit /\ DexIdle /\ PokeIdle /\ LevelIdle /\ StatIdle /\ StageIdle

NextStack ==
    \/ StackTryTake /\ UNCHANGED <<dexVars, pokeVars, levelVars, statVars, stageVars>>
    \/ StackTake /\ UNCHANGED <<dexVars, pokeVars, levelVars, statVars, stageVars>>
    \/ StackTryUse /\ UNCHANGED <<dexVars, pokeVars, levelVars, statVars, stageVars>>
    \/ StackAdd /\ UNCHANGED <<dexVars, pokeVars, levelVars, statVars, stageVars>>

SpecStack == InitStack /\ [][NextStack]_vars

InitPokemon == PokeInit /\ DexIdle /\ StackIdle /\ LevelIdle /\ StatIdle /\ StageIdle

NextPokemon ==
    \/ PokeCallInit /\ UNCHANGED <<dexVars, stackVars, levelVars, statVars, stageVars>>
    \/ PokeCallMoveSetInit /\ UNCHANGED <<dexVars, stackVars, levelVars, statVars, stageVars>>
    \/ PokeCallUninit /\ UNCHANGED <<dexVars, stackVars, levelVars, statVars, stageVars>>

SpecPokemon == InitPokemon /\ [][NextPokemon]_vars

InitLevel == LevelInit /\ DexIdle /\ StackIdle /\ StatIdle /\ StageIdle

NextLevel ==
    \/ LevelCallInit /\ UNCHANGED <<dexVars, stackVars, statVars, stageVars>>
    \/ LevelCallAdd /\ UNCHANGED <<dexVars, stackVars, statVars, stageVars>>
    \/ LevelCallAddExp /\ UNCHANGED <<dexVars, stackVars, statVars, stageVars>>
    \/ LevelCallOnLevelUp /\ UNCHANGED <<dexVars, stackVars, statVars, stageVars>>

SpecLevel == InitLevel /\ [][NextLevel]_vars

InitStat == StatInit /\ DexIdle /\ StackIdle /\ PokeIdle /\ LevelIdle /\ StageIdle

NextStat == StatCall /\ UNCHANGED <<dexVars, pokeVars, stackVars, levelVars, stageVars>>

SpecStat == InitStat /\ [][NextStat]_vars

InitStage == StageInit /\ DexIdle /\ StackIdle /\ PokeIdle /\ LevelIdle /\ StatIdle

NextStage ==
    \/ StageCanChange /\ UNCHANGED <<dexVars, pokeVars, stackVars, levelVars, statVars>>
    \/ StageChange /\ UNCHANGED <<dexVars, pokeVars, stackVars, levelVars, statVars>>

SpecStage == InitStage /\ [][NextStage]_vars

(***************************************************************************)
(* Claims about the Dex (checked under SpecDex)                             *)
(***************************************************************************)

\* C1: on a Dex that holds an entry under UNKNOWN, get(id) never panics; it
\* returns the entry stored under id when try_get(id) finds one and the entry
\* stored under UNKNOWN when id is absent.
C1_GetFallsBackToUnknown ==
    (lookup.op = "get" /\ UNKNOWN \in DOMAIN dex) =>
        /\ ~lookup.out.panic
        /\ lookup.id \in DOMAIN dex => lookup.out.val = Some(dex[lookup.id])
        /\ lookup.id \notin DOMAIN dex => lookup.out.val = Some(dex[UNKNOWN])

C1_Witness ==
    /\ lookup.op = "get"
    /\ UNKNOWN \in DOMAIN dex
    /\ lookup.id \notin DOMAIN dex
    /\ lookup.out = Ok(dex[UNKNOWN])

\* C2 as stated: on a Dex that lacks the UNKNOWN entry, unknown() and get()
\* both panic, whatever id get is asked for.
C2_GetAndUnknownAlwaysPanic ==
    (lookup.op \in {"get", "unknown"} /\ UNKNOWN \notin DOMAIN dex) => lookup.out.panic

\* C2 amended: on a Dex that lacks the UNKNOWN entry, unknown() panics, and
\* get(id) panics exactly when id is absent; for a present id get(id) returns
\* the entry stored under id.
C2_PanicOnMissOnly ==
    UNKNOWN \notin DOMAIN dex =>
        /\ lookup.op = "unknown" => lookup.out = Panicked
        /\ lookup.op = "get" =>
            /\ lookup.out.panic <=> lookup.id \notin DOMAIN dex
            /\ lookup.id \in DOMAIN dex => lookup.out = Ok(dex[lookup.id])
            /\ lookup.id \notin DOMAIN dex => lookup.out = Panicked

C2_Witness ==
    /\ UNKNOWN \notin DOMAIN dex
    /\ lookup.op = "get"
    /\ lookup.id \notin DOMAIN dex
    /\ lookup.out.panic

\* C3: a registry that lacks its UNKNOWN entry never serves a try_get or get
\* call: the missing entry is caught while the registry is built.
C3_UnknownCheckedAtBuild ==
    lookup.op \in {"try_get", "get"} => UNKNOWN \in DOMAIN dex

(***************************************************************************)
(* Claims about the conversion (checked under SpecPokemon)                  *)
(***************************************************************************)

\* the ids of a sequence of saved or re-saved move slots
SlotIds(slots) == [i \in 1..Len(slots) |-> slots[i].id]

\* the saved move ids that are keys of the movedex, in their saved order
ResolvingIds(slots) == SelectSeq(SlotIds(slots), LAMBDA id : id \in DOMAIN Movedex)

\* the move ids an empty live set is filled with: of the species' moves
\* learnable at levels 1..level the last four listed, last first, without
\* those the movedex lacks
FilledIds(species, level) ==
    LET learnable == SelectSeq(species.moves, LAMBDA lm : lm[1] >= 1 /\ lm[1] <= level)
        n == Len(learnable)
        k == Min(n, 4)
        lastFirst == [i \in 1..k |-> learnable[n + 1 - i][2]]
    IN  SelectSeq(lastFirst, LAMBDA id : id \in DOMAIN Movedex)

\* C4 as stated: uninit(init(saved)) equals saved on the species id, level,
\* ivs, evs, friendship, ailment, nickname, moves, item and experience.
C4_RoundTripAllButThree ==
    pc = "resaved" =>
        LET r == Unwrap(resaved) IN
        /\ r.pokemon = saved.pokemon
        /\ r.level = saved.level
        /\ r.ivs = saved.ivs
        /\ r.evs = saved.evs
        /\ r.friendship = saved.friendship
        /\ r.ailment = saved.ailment
        /\ r.nickname = saved.nickname
        /\ r.moves = saved.moves
        /\ r.item = saved.item
        /\ r.experience = saved.experience

\* C4 amended: uninit(init(saved)) equals saved on the species id, level,
\* ivs, evs, friendship, ailment, nickname and experience; gender, nature and
\* hp come back concrete, with the saved value where saved had one; the moves
\* come back as the saved move ids that resolve in the movedex, in order, or,
\* when none resolves, as the ids init filled the empty set with; the item
\* comes back as the saved item id when it resolves in the itemdex and as no
\* item otherwise.
C4_RoundTripUpToDroppedReferences ==
    pc = "resaved" =>
        LET r == Unwrap(resaved) IN
        /\ r.pokemon = saved.pokemon
        /\ r.level = saved.level
        /\ r.ivs = saved.ivs
        /\ r.evs = saved.evs
        /\ r.friendship = saved.friendship
        /\ r.ailment = saved.ailment
        /\ r.nickname = saved.nickname
        /\ r.experience = saved.experience
        /\ IsSome(r.gender) /\ (IsSome(saved.gender) => r.gender = saved.gender)
        /\ IsSome(r.nature) /\ (IsSome(saved.nature) => r.nature = saved.nature)
        /\ IsSome(r.hp) /\ (IsSome(saved.hp) => r.hp = saved.hp)
        /\ SlotIds(r.moves) =
                IF ResolvingIds(saved.moves) # << >>
                THEN ResolvingIds(saved.moves)
                ELSE FilledIds(Pokedex[saved.pokemon], saved.level)
        /\ r.item = IF IsSome(saved.item) /\ Unwrap(saved.item) \in DOMAIN Itemdex
                    THEN saved.item
                    ELSE None

C4_Witness ==
    /\ pc = "resaved"
    /\ saved.gender = None /\ saved.nature = None /\ saved.hp = None
    /\ saved.nickname # None
    /\ Len(saved.moves) = 3
    /\ Len(Unwrap(resaved).moves) = 2
    /\ saved.item = Some(MissingItem)
    /\ Unwrap(resaved).item = None
    /\ Unwrap(resaved).nickname = saved.nickname
    /\ IsSome(Unwrap(resaved).hp)

\* C5: init returns no live value exactly when the species id is not in the
\* pokedex; bad move ids, a bad item id and absent gender, nature or hp never
\* make it return None.
C5_NoneIffSpeciesMissing ==
    pc \in {"live", "failed", "resaved"} =>
        /\ live = None <=> saved.pokemon \notin DOMAIN Pokedex
        /\ pc = "failed" <=> live = None
        /\ IsSome(live) => Unwrap(live).pokemon = Pokedex[saved.pokemon]

C5_Witness ==
    /\ pc = "failed"
    /\ live = None
    /\ saved.pokemon = MissingPokemon
    /\ ResolvingIds(saved.moves) # << >>
    /\ saved.item = Some(1)

\* C6: converting a saved move set always succeeds and the live set holds
\* exactly the saved slots whose ids resolve in the movedex, each resolved to
\* the movedex entry, in their saved order; and a saved item id that does not
\* resolve gives a live pokemon with no item, not a failed conversion.
C6_UnresolvedReferencesDropped ==
    /\ pc = "moveset" =>
        /\ IsSome(moveset)
        /\ Len(Unwrap(moveset)) = Len(ResolvingIds(saved.moves))
        /\ \A i \in 1..Len(Unwrap(moveset)) :
                Unwrap(moveset)[i] = [m |-> Movedex[ResolvingIds(saved.moves)[i]]]
    /\ (pc \in {"live", "failed"} /\ saved.pokemon \in DOMAIN Pokedex) =>
        /\ IsSome(live)
        /\ Unwrap(live).item =
                IF IsSome(saved.item) /\ Unwrap(saved.item) \in DOMAIN Itemdex
                THEN Some(Itemdex[Unwrap(saved.item)])
                ELSE None

C6_Witness ==
    /\ pc = "moveset"
    /\ SlotIds(saved.moves) = <<2, MissingMove, 1>>
    /\ Unwrap(moveset) = <<[m |-> Movedex[2]], [m |-> Movedex[1]]>>

(***************************************************************************)
(* Claims about the item stack (checked under SpecStack)                    *)
(***************************************************************************)

\* C7: take(n) never fails: it returns a stack of the same item holding
\* min(n, c) and leaves the source at c - min(n, c), so the two counts add up
\* to the count c before the call.
C7_TakeIsMin ==
    call.op = "take" =>
        /\ ~call.underflow
        /\ call.out = Some([item |-> call.before.item,
                            count |-> Min(call.n, call.before.count)])
        /\ stack.item = call.before.item
        /\ stack.count = call.before.count - Min(call.n, call.before.count)
        /\ stack.count + Unwrap(call.out).count = call.before.count

C7_Witness ==
    /\ call.op = "take"
    /\ call.n = 10
    /\ call.before.count = 6
    /\ Unwrap(call.out).count = 6
    /\ stack.count = 0

\* C8: try_take(n) returns no value and leaves the source as it was when n
\* exceeds the count; otherwise it returns a stack of exactly n of the same
\* item and the source loses exactly n; the subtraction never underflows.
C8_TryTakeExactOrNothing ==
    call.op = "try_take" =>
        /\ ~call.underflow
        /\ call.n > call.before.count => (call.out = None /\ stack = call.before)
        /\ call.n <= call.before.count =>
            /\ call.out = Some([item |-> call.before.item, count |-> call.n])
            /\ stack.item = call.before.item
            /\ stack.count = call.before.count - call.n

C8_Witness ==
    /\ call.op = "try_take"
    /\ call.n = 10
    /\ call.before.count = 6
    /\ call.out = None
    /\ stack.count = 6

\* C9: add(n) on a uniquely-stackable item whose count is not zero returns
\* false and leaves the count; in every other case it returns true and the
\* count becomes count + n clamped at the largest usize.
C9_AddSaturatesOrRefuses ==
    call.op = "add" =>
        /\ stack.item = call.before.item
        /\ (call.before.item.stackable = "Unique" /\ call.before.count # 0) =>
            (~call.flag /\ stack.count = call.before.count)
        /\ ~(call.before.item.stackable = "Unique" /\ call.before.count # 0) =>
            (call.flag /\ stack.count = Min(call.before.count + call.n, UsizeMax))

C9_Witness ==
    /\ call.op = "add"
    /\ call.flag
    /\ call.before.count > 0
    /\ call.before.count + call.n > UsizeMax
    /\ stack.count = UsizeMax

\* C10 as stated: try_use() on a consumable item succeeds exactly when the
\* count was positive and then takes one off; on a non-consumable item it
\* succeeds without taking anything off, for every count.
C10_NonConsumableAlwaysSucceeds ==
    call.op = "try_use" =>
        IF call.before.item.consume
        THEN /\ call.flag <=> call.before.count > 0
             /\ stack.count = IF call.before.count > 0 THEN call.before.count - 1 ELSE 0
        ELSE call.flag /\ stack.count = call.before.count

\* C10 amended: try_use() succeeds exactly when the count was positive, for a
\* consumable and a non-consumable item alike; a successful use takes one off
\* the count of a consumable item and nothing off a non-consumable one; a
\* failed use (count 0) leaves the count at 0.
C10_TryUseNeedsPositiveCount ==
    call.op = "try_use" =>
        /\ call.flag <=> call.before.count > 0
        /\ stack.item = call.before.item
        /\ stack.count = IF call.before.item.consume /\ call.before.count > 0
                         THEN call.before.count - 1
                         ELSE call.before.count

C10_Witness ==
    /\ call.op = "try_use"
    /\ ~call.before.item.consume
    /\ call.before.count = 0
    /\ ~call.flag
    /\ stack.count = 0


(***************************************************************************)
(* Claims about the live move set and levelling (SpecLevel)                 *)
(***************************************************************************)

\* the live pokemon's moves after the call recorded in ret
MovesNow == Unwrap(live).moves
\* the slot add(index, m) writes for the move id recorded in ret
AddedSlot == OwnedMove_from(Movedex[ret.arg])

\* C11: add(index, m) on a set of fewer than four moves appends m whatever the
\* index and leaves the moves already held as they were; on a full set with
\* Some(i), i < 4, exactly slot i becomes m; on a full set with None or an
\* index out of range nothing changes.
C11_AddFrame ==
    ret.op = "add" =>
        /\ Len(ret.before) < MOVE_SET_SIZE => MovesNow = Append(ret.before, AddedSlot)
        /\ (Len(ret.before) = MOVE_SET_SIZE /\ IsSome(ret.index)
                /\ Unwrap(ret.index) < MOVE_SET_SIZE) =>
              /\ Len(MovesNow) = MOVE_SET_SIZE
              /\ MovesNow[Unwrap(ret.index) + 1] = AddedSlot
              /\ \A j \in 1..MOVE_SET_SIZE :
                    j # Unwrap(ret.index) + 1 => MovesNow[j] = ret.before[j]
        /\ (Len(ret.before) = MOVE_SET_SIZE
                /\ (ret.index = None \/ Unwrap(ret.index) >= MOVE_SET_SIZE)) =>
              MovesNow = ret.before

\* a full set whose slot 1 was overwritten by a move it did not hold there
C11_Witness ==
    /\ ret.op = "add"
    /\ Len(ret.before) = MOVE_SET_SIZE
    /\ ret.index = Some(1)
    /\ ret.before[2] # AddedSlot
    /\ MovesNow[2] = AddedSlot

\* C12: the live move set never holds more than four moves, whatever sequence
\* of init (with its automatic fill), add with any index, add_exp and
\* on_level_up produced it; a push is never made on a full set.
C12_AtMostFourMoves ==
    IsSome(live) => Len(MovesNow) <= MOVE_SET_SIZE

\* add_exp levelled a pokemon up, filled the set and had moves left over
C12_Witness ==
    /\ ret.op = "add_exp"
    /\ Len(ret.before) < MOVE_SET_SIZE
    /\ Len(MovesNow) = MOVE_SET_SIZE
    /\ ret.returned # << >>

\* the thresholds of the levels a..b-1, summed
RECURSIVE SumThresholds(_, _)
SumThresholds(a, b) == IF a >= b THEN 0 ELSE Growth_max_exp(a) + SumThresholds(a + 1, b)

\* the experience the pokemon held before the call plus five times the gain
Total == ret.experience + 5 * ret.arg

\* the recorded add_exp call left the range of Experience
Overflowed == 5 * ret.arg > ExpMax \/ Total > ExpMax

\* what add_exp is to leave behind: the final level is the first one from the
\* previous level on whose threshold the remaining experience does not
\* exceed, and the remainder is the total less the thresholds passed
LevelledFrom(total) ==
    LET o == Unwrap(live) IN
    /\ o.level >= ret.level
    /\ o.experience = total - SumThresholds(ret.level, o.level)
    /\ o.experience <= Growth_max_exp(o.level)
    /\ \A l \in ret.level..(o.level - 1) :
          total - SumThresholds(ret.level, l) > Growth_max_exp(l)

Levelled == LevelledFrom(Total)

\* C13: add_exp(e) adds 5*e to the experience, then while the experience
\* exceeds the threshold of the current level subtracts it and increments the
\* level; on return the experience is at most the threshold of the final level.
C13_AddExpLevels ==
    (ret.op = "add_exp" /\ ~ret.panic) => Levelled

\* C13 for the calls whose sums stay within Experience
C13_LevelsWithoutOverflow ==
    (ret.op = "add_exp" /\ ~ret.panic /\ ~Overflowed) => Levelled

\* add_exp passed two thresholds in one call
C13_TwoLevels ==
    /\ ret.op = "add_exp" /\ ~ret.panic /\ ~Overflowed
    /\ Unwrap(live).level = ret.level + 2

\* the total a saturating scaling and a saturating accumulation would give
SaturatedTotal == Min(ret.experience + Min(5 * ret.arg, ExpMax), ExpMax)

\* C17: add_exp uses saturating arithmetic: the scaling by 5, the accumulation
\* and the level increment never overflow or panic, the experience is clamped
\* at the largest value of its type.
C17_SaturatingArithmetic ==
    ret.op = "add_exp" =>
        /\ ~ret.panic
        /\ LevelledFrom(SaturatedTotal)

\* the recorded call was add_exp or on_level_up and it returned
LevelUpReturned == ret.op \in {"add_exp", "on_level_up"} /\ ~ret.panic

\* the level the recorded call levelled up from: the level before add_exp,
\* the argument of on_level_up
PreviousLevel == IF ret.op = "add_exp" THEN ret.level ELSE ret.arg

Count(seq, x) == Cardinality({i \in DOMAIN seq : seq[i] = x})

\* ids is made of one block per level of levels, highest level first, and the
\* block of a level holds the species' moves learned at that level
DescendingBlocks(pokemon, levels, ids) ==
    /\ Len(ids) = Len(Pokemon_moves_at(pokemon, levels))
    /\ \A l \in levels :
        LET off == Len(Pokemon_moves_at(pokemon, {k \in levels : k > l}))
            at == Pokemon_moves_at(pokemon, {l})
            block == SubSeq(ids, off + 1, off + Len(at))
        IN  \A j \in DOMAIN at : Count(block, at[j]) = Count(at, at[j])

\* C14: after a level-up from p to n the moves offered to the set are the
\* species' moves learned at the levels above p up to and including n, tried
\* in descending level order; with no level change no move is offered.
C14_OfferedAbovePreviousDescending ==
    LevelUpReturned =>
        DescendingBlocks(Unwrap(live).pokemon,
                         (PreviousLevel + 1)..Unwrap(live).level, ret.offered)

\* C14, last part: a call that leaves the level where it was offers nothing
C14_NoChangeNoOffer ==
    (LevelUpReturned /\ PreviousLevel = Unwrap(live).level) => ret.offered = << >>

\* C15: automatic levelling never evicts a move: add_exp and on_level_up only
\* append to the free slots, the moves held before stay where they were, and
\* a full set is left as it was.
C15_LevelUpOnlyAppends ==
    ret.op \in {"add_exp", "on_level_up"} =>
        /\ Len(MovesNow) >= Len(ret.before)
        /\ SubSeq(MovesNow, 1, Len(ret.before)) = ret.before
        /\ Len(ret.before) = MOVE_SET_SIZE => MovesNow = ret.before

\* a level-up appended to a set that held moves and offered moves to a full set
C15_Witness ==
    /\ ret.op = "add_exp"
    /\ ret.before # << >>
    /\ Len(MovesNow) > Len(ret.before)
    /\ ret.returned # << >>
    /\ IsSome(BasicDex_try_get(Movedex, Head(ret.returned)))

\* a level-up on a set that was already full, with moves to offer
C15_FullWitness ==
    /\ ret.op \in {"add_exp", "on_level_up"}
    /\ Len(ret.before) = MOVE_SET_SIZE
    /\ ret.offered # << >>

\* the ids of the moves the recorded call appended to the set
AddedIds ==
    [j \in 1..(Len(MovesNow) - Len(ret.before)) |-> MovesNow[Len(ret.before) + j].m.id]

\* the ids of a sequence that the movedex holds, in order
RECURSIVE Resolving(_)
Resolving(ids) ==
    IF ids = << >> THEN << >>
    ELSE (IF IsSome(BasicDex_try_get(Movedex, Head(ids))) THEN <<Head(ids)>> ELSE << >>)
         \o Resolving(Tail(ids))

\* the species' moves learned at the levels above the previous one up to the
\* level reached
LearnableInRange ==
    Pokemon_moves_at(Unwrap(live).pokemon, (PreviousLevel + 1)..Unwrap(live).level)

\* C16: the moves returned by add_exp / on_level_up are the offered moves
\* skipped because the set was full: every move learnable in the levelled range
\* is either added to the set or returned, never both and never neither.
C16_LearnableAddedOrReturned ==
    LevelUpReturned =>
        /\ ret.returned # << >> => Len(MovesNow) = MOVE_SET_SIZE
        /\ \A id \in 0..MissingMove :
              Count(LearnableInRange, id) = Count(AddedIds, id) + Count(ret.returned, id)

\* what holds of the ids the iterator yields: a first part of them was tried,
\* those of it that the movedex holds were added, and the rest is returned,
\* non-empty only when the set is full
C16_OfferedTriedOrReturned ==
    LevelUpReturned =>
        /\ ret.returned # << >> => Len(MovesNow) = MOVE_SET_SIZE
        /\ \E k \in 0..Len(ret.offered) :
              /\ AddedIds = Resolving(SubSeq(ret.offered, 1, k))
              /\ ret.returned = SubSeq(ret.offered, k + 1, Len(ret.offered))

\* an offered id that the movedex does not hold was tried: it is neither in
\* the set nor returned
C16_DroppedUnresolved ==
    /\ LevelUpReturned
    /\ Count(ret.offered, MissingMove) > Count(ret.returned, MissingMove)

\* init was called on a generated saved pokemon, whose move set is empty, and
\* the species resolved
GeneratedInitialised ==
    /\ ret.op = "init"
    /\ IsSome(live)
    /\ saved = SavedPokemon_generate(saved.pokemon, saved.level, saved.gender, None)

\* the ids of the species' moves learnable at the levels 1..=level
LearnableAtLevel == Pokemon_moves_at(Unwrap(live).pokemon, 1..saved.level)

\* C19: initialising a generated saved pokemon, whose move set is empty, fills
\* the live set from the species' learnable moves: whenever the species has a
\* move learnable at a level in 1..=level that the movedex holds, the live set
\* is non-empty after init, and it holds at most four moves.
C19_FilledWhenAnyLearnableResolves ==
    GeneratedInitialised =>
        /\ Len(MovesNow) <= MOVE_SET_SIZE
        /\ (\E i \in DOMAIN LearnableAtLevel :
                IsSome(BasicDex_try_get(Movedex, LearnableAtLevel[i])))
              => MovesNow # << >>

\* C19, amended: the live set is non-empty after init exactly when one of the
\* last four of the species' moves learnable at 1..=level is held by the
\* movedex, and it holds at most four moves.
C19_FilledWhenOneOfLastFourResolves ==
    GeneratedInitialised =>
        /\ Len(MovesNow) <= MOVE_SET_SIZE
        /\ MovesNow # << >> <=>
              \E i \in DOMAIN LearnableAtLevel :
                  /\ i > Len(LearnableAtLevel) - MOVE_SET_SIZE
                  /\ IsSome(BasicDex_try_get(Movedex, LearnableAtLevel[i]))

\* a generated pokemon of a species with more than four learnable moves was
\* initialised and its set filled, one of the last four not being held
C19_Witness ==
    /\ GeneratedInitialised
    /\ Len(LearnableAtLevel) > MOVE_SET_SIZE
    /\ MovesNow # << >>
    /\ Len(MovesNow) < MOVE_SET_SIZE


(***************************************************************************)
(* Claims about the derived stats (SpecStat)                                *)
(***************************************************************************)

\* r is the floor of num / den
IsFloorOf(r, num, den) == den * r <= num /\ num < den * (r + 1)

\* (2 * base + iv + ev) * level for one stat of the recorded computation
Scaled(st) ==
    (2 * statcall.pokemon.base[st] + statcall.ivs[st] + statcall.evs[st]) * statcall.level

\* value is what the claim gives for stat st: the health formula for the
\* health stat, the non-health formula for every other stat
IsStatOf(value, st) ==
    IF st = "hp"
    THEN IsFloorOf(value - statcall.level - 10, Scaled(st), 100)
    ELSE IsFloorOf(value - 5, Scaled(st), 100)

\* the recorded computation is the one of the fixtures
IsFixture(st) ==
    /\ statcall.pokemon.base[st] = 60
    /\ statcall.ivs[st] = 31
    /\ statcall.evs[st] = 0
    /\ statcall.level = 50

\* C18: the non-health stat is floor((2*base + iv + ev) * level / 100) + 5 and
\* the health stat is floor((2*base + iv + ev) * level / 100) + level + 10, for
\* Pokemon::stat, which sends Health to the health formula and every other
\* stat to the non-health one, and for StatSet::new; stat(60, 31, 0, 50) is 80
\* and hp(60, 31, 0, 50) is 135.
C18_StatFormulas ==
    statcall.op = "stat" =>
        /\ IsStatOf(statcall.out, statcall.stat)
        /\ \A st \in StatTypes : IsStatOf(statcall.set[st], st)
        /\ IsFixture(statcall.stat) =>
              statcall.out = (IF statcall.stat = "hp" THEN 135 ELSE 80)
        /\ \A st \in StatTypes :
              IsFixture(st) => statcall.set[st] = (IF st = "hp" THEN 135 ELSE 80)

\* the two fixtures were computed: the health of (60, 31, 0, 50) by
\* Pokemon::stat and a non-health stat of it by StatSet::new
C18_Witness ==
    /\ statcall.op = "stat"
    /\ statcall.stat = "hp"
    /\ IsFixture("hp") /\ IsFixture("atk")
    /\ statcall.out = 135
    /\ statcall.set["atk"] = 80

\* a computation whose quotient is not a whole number, so that it is rounded
C18_RoundedWitness ==
    /\ statcall.op = "stat"
    /\ statcall.stat = "speed"
    /\ Scaled("speed") % 100 = 99


(***************************************************************************)
(* Claims about the stat stages (SpecStage)                                 *)
(***************************************************************************)

\* C20: starting from all stages at 0, after any sequence of change_stage calls
\* each made only when can_change_stage returned true for the same StatStage,
\* every stage is within -6..=6 and the i8 addition never overflows.
C20_StagesBounded ==
    /\ \A t \in FullStatTypes : stages[t] >= -6 /\ stages[t] <= 6
    /\ ~stagecall.overflow

\* seven single steps down, each allowed, have taken a stage to -7
C20_BelowBySingleSteps ==
    /\ stagecall.op = "change_stage"
    /\ stagecall.stat.stage = -1
    /\ stages[stagecall.stat.stat] = -7

\* an allowed change_stage overflowed the i8
C20_Overflowed ==
    stagecall.op = "change_stage" /\ stagecall.overflow


(***************************************************************************)
(* Claims about the stack of a unique item (SpecStack)                      *)
(***************************************************************************)

\* C21: a stack of a uniquely-stackable item never holds more than one:
\* starting from count 0 (ItemStack::from), after any sequence of add(n),
\* take(n), try_take(n) and try_use() calls the count is at most 1.
C21_UniqueAtMostOne ==
    stack.item.stackable = "Unique" => stack.count <= 1

\* add(n) with n > 1 on an empty stack of a unique item was accepted and left
\* the count at n
C21_UniqueHoldsMany ==
    /\ stack.item.stackable = "Unique"
    /\ call.op = "add" /\ call.flag
    /\ call.before.count = 0
    /\ call.n > 1
    /\ stack.count = call.n

====
